---- MODULE Spec2Model ----
(***************************************************************************)
(* The ledger subsystem of api/index.py: the date-keyed CSV ledger kept in *)
(* the blob store, the carry-forward resolvers, the report assembled by    *)
(* get_stats and the two handlers that rewrite the ledger (get_stats and   *)
(* save_waist).                                                            *)
(*                                                                         *)
(* Numbers with one decimal place are kept in tenths (702 is 70.2), date   *)
(* keys are day numbers (ISO dates compare as their day numbers do).       *)
(***************************************************************************)
EXTENDS Integers, Sequences, FiniteSets, TLC

\* ------------------------------------------------------------------ bounds
\* Calendar dates an invocation may run on: 1 .. MaxDate.
MaxDate == 2

Dates == 1..MaxDate

\* ----------------------------------------------------------- Python values
\* A value is a str or a number.  A str is '', the decimal text of a number,
\* or an ISO date; csv.DictWriter writes str(value) and csv.DictReader reads
\* every cell back as a str.
EmptyStr == [ty |-> "str", kind |-> "empty", n |-> 0]

NumStr(n) == [ty |-> "str", kind |-> "num", n |-> n]

DateStr(d) == [ty |-> "str", kind |-> "date", n |-> d]

Num(n) == [ty |-> "num", kind |-> "num", n |-> n]

\* float('nan'): a number that is not equal to, below or above any number.
NaN == [ty |-> "num", kind |-> "nan", n |-> 0]

\* bool(v): a str is true when non-empty, a number when non-zero (nan is).
Truthy(v) == IF v.ty = "str" THEN v.kind # "empty" ELSE v.kind = "nan" \/ v.n # 0

\* The cell csv.DictWriter writes for v, as csv.DictReader reads it back.
CsvCell(v) == IF v.ty = "num" THEN [NumStr(v.n) EXCEPT !.kind = v.kind] ELSE v

\* float(v) succeeds on a number and on the text of one ('nan' included); it
\* raises on '' and on any other text.
FloatOk(v) == v.kind \in {"num", "nan"}

Float(v) == v.n

\* ------------------------------------------------------------------- rows
\* The ledger's columns: the date key, one daily-fresh column standing for
\* the fifty-odd columns get_stats recomputes every day, and the slowly
\* changing columns.
CSV_HEADERS ==
    <<"date", "totalSteps", "weightKg", "weightLbs", "bodyFatPercent",
      "bodyWaterPercent", "muscleMassKg", "bodyCompDate", "waistInches",
      "waistDate">>

Columns == {CSV_HEADERS[i] : i \in 1..Len(CSV_HEADERS)}

BodyCompColumns ==
    {"weightKg", "weightLbs", "bodyFatPercent", "bodyWaterPercent",
     "muscleMassKg", "bodyCompDate"}

WaistColumns == {"waistInches", "waistDate"}

\* key=lambda x: x.get('date', ''): '' sorts before every date.
DateKey(row) == IF row.date.kind = "date" THEN row.date.n ELSE 0

\* list.sort(key=...): a stable sort, here by insertion.
RECURSIVE InsertByDate(_, _)
InsertByDate(sorted, row) ==
    IF sorted = <<>> THEN <<row>>
    ELSE IF DateKey(sorted[Len(sorted)]) <= DateKey(row)
         THEN Append(sorted, row)
         ELSE Append(InsertByDate(SubSeq(sorted, 1, Len(sorted) - 1), row),
                     sorted[Len(sorted)])

\* Mutant of SortByDate: the rows are written in the order the upsert left
\* them.
SortByDateSkipped(rows) == rows

RECURSIVE SortByDate(_)
SortByDate(rows) ==
    IF rows = <<>> THEN <<>>
    ELSE InsertByDate(SortByDate(SubSeq(rows, 1, Len(rows) - 1)),
                      rows[Len(rows)])

\* Index of the first row whose date cell equals today's ISO date, 0 if none
\* (the handlers' "for i, row in enumerate(csv_rows) ... break").
FindDate(rows, today) ==
    LET hits == {i \in 1..Len(rows) : rows[i].date = DateStr(today)}
    IN  IF hits = {} THEN 0 ELSE CHOOSE i \in hits : \A j \in hits : i <= j

\* ------------------------------------------------------------ blob store
\* The store holds the objects put under the ledger's pathname, oldest first:
\* each has the handle (url) the store gave it and the CSV content, kept as
\* the rows csv.DictReader parses from it.  An object's uploadedAt is its
\* place in upload order.
CSV_FILENAME == "garmin-data.csv"

\* list_blobs: the listing, or [] without a token or when the call fails.
ListBlobs(token, store, listOk) ==
    IF ~token \/ ~listOk THEN <<>>
    ELSE [i \in 1..Len(store) |->
            [url |-> store[i].url, pathname |-> CSV_FILENAME, uploadedAt |-> i]]

\* Mutant of GetBlobUrl: the first object listed is taken, not the newest.
GetBlobUrlFirstListed(listing) ==
    LET matching == {i \in 1..Len(listing) : listing[i].pathname = "garmin-data.csv"}
    IN  IF matching = {} THEN 0
        ELSE listing[CHOOSE i \in matching : \A j \in matching : i <= j].url

\* Mutant of GetBlobUrl: the sort by uploadedAt is ascending.
GetBlobUrlAscending(listing) ==
    LET matching == {i \in 1..Len(listing) : listing[i].pathname = "garmin-data.csv"}
    IN  IF matching = {} THEN 0
        ELSE listing[CHOOSE i \in matching :
                        \A j \in matching :
                            listing[i].uploadedAt <= listing[j].uploadedAt].url

\* get_blob_url: of the listed objects with the ledger's pathname, the url of
\* the one uploaded last; 0 (None) when there is none.
GetBlobUrl(listing) ==
    LET matching == {i \in 1..Len(listing) : listing[i].pathname = CSV_FILENAME}
    IN  IF matching = {} THEN 0
        ELSE LET newest == CHOOSE i \in matching :
                    \A j \in matching :
                        \/ listing[j].uploadedAt < listing[i].uploadedAt
                        \/ listing[j].uploadedAt = listing[i].uploadedAt /\ i <= j
             IN  listing[newest].url

\* Mutant of FetchBlob: the body is parsed whatever the status.
FetchBlobAnyStatus(store, url, fetchOk) ==
    LET hits == {i \in 1..Len(store) : store[i].url = url}
    IN  IF hits = {} THEN <<>>
        ELSE store[CHOOSE i \in hits : TRUE].rows

\* requests.get(url): the object's rows on a 200; [] on any other status, on
\* an exception, and when the object is gone.
FetchBlob(store, url, fetchOk) ==
    LET hits == {i \in 1..Len(store) : store[i].url = url}
    IN  IF ~fetchOk \/ hits = {} THEN <<>>
        ELSE store[CHOOSE i \in hits : TRUE].rows

\* read_csv_from_blob.
ReadCsvFromBlob(token, store, listOk, fetchOk) ==
    IF ~token THEN <<>>
    ELSE LET blob_url == GetBlobUrl(ListBlobs(token, store, listOk))
         IN  IF blob_url = 0 THEN <<>>
             ELSE FetchBlob(store, blob_url, fetchOk)

\* delete_blob: the store without the object, when the delete succeeds.
DeleteBlob(store, url, delOk) ==
    IF ~delOk THEN store
    ELSE SelectSeq(store, LAMBDA b : b.url # url)

RECURSIVE DeleteAll(_, _, _)
DeleteAll(store, urls, failing) ==
    IF urls = <<>> THEN store
    ELSE DeleteAll(DeleteBlob(store, Head(urls), Head(urls) \notin failing),
                   Tail(urls), failing)

\* The CSV text csv.DictWriter produces for the rows, as parsed back.
CsvContent(rows) ==
    [i \in 1..Len(rows) |-> [c \in Columns |-> CsvCell(rows[i][c])]]

\* A handle the store has not given out to an object still present or still
\* referred to by a writer.
FreshUrl(store, held) ==
    LET used == {store[i].url : i \in 1..Len(store)} \cup held
    IN  CHOOSE u \in 1..(Cardinality(used) + 1) :
            u \notin used /\ \A v \in 1..(Cardinality(used) + 1) : v \notin used => u <= v

\* requests.put: a new object after every object present.
PutBlob(store, rows, held) ==
    Append(store, [url |-> FreshUrl(store, held), rows |-> CsvContent(rows)])

\* write_csv_to_blob: list the present objects, put the new one, then delete
\* the listed ones; no delete is issued unless the put returned 200/201.
\* failing: the urls whose delete fails.
WriteCsvToBlob(token, store, rows, listOk, putOk, failing) ==
    IF ~token THEN [ok |-> FALSE, store |-> store]
    ELSE LET old_blobs == ListBlobs(token, store, listOk)
             old_urls  == [i \in 1..Len(old_blobs) |-> old_blobs[i].url]
         IN  IF putOk
             THEN [ok |-> TRUE,
                   store |-> DeleteAll(PutBlob(store, rows, {}), old_urls, failing)]
             ELSE [ok |-> FALSE, store |-> store]

\* -------------------------------------------------- carry-forward resolver
NoneValue == [tag |-> "none"]

Raised == [tag |-> "raise"]

\* get_last_body_composition, scanning rows[i], rows[i-1], ..., rows[1].
RECURSIVE LastBodyCompositionFrom(_, _)
LastBodyCompositionFrom(rows, i) ==
    IF i = 0 THEN NoneValue
    ELSE LET row == rows[i]
         IN  IF ~Truthy(row.weightKg) THEN LastBodyCompositionFrom(rows, i - 1)
             ELSE IF ~FloatOk(row.weightKg) THEN Raised
             ELSE IF Float(row.weightKg) <= 0 THEN LastBodyCompositionFrom(rows, i - 1)
             ELSE IF \E c \in {"weightLbs", "bodyFatPercent", "bodyWaterPercent",
                               "muscleMassKg"} : ~FloatOk(row[c])
                  THEN Raised
             ELSE [tag |-> "some",
                   weightKg |-> Num(Float(row.weightKg)),
                   weightLbs |-> Num(Float(row.weightLbs)),
                   bodyFatPercent |-> Num(Float(row.bodyFatPercent)),
                   bodyWaterPercent |-> Num(Float(row.bodyWaterPercent)),
                   muscleMassKg |-> Num(Float(row.muscleMassKg)),
                   date |-> row.bodyCompDate]

\* Mutant of GetLastBodyComposition: the scan starts one row early.
GetLastBodyCompositionOffByOne(rows) ==
    IF rows = <<>> THEN NoneValue ELSE LastBodyCompositionFrom(rows, Len(rows) - 1)

GetLastBodyComposition(rows) == LastBodyCompositionFrom(rows, Len(rows))

\* get_last_waist.
RECURSIVE LastWaistFrom(_, _)
LastWaistFrom(rows, i) ==
    IF i = 0 THEN NoneValue
    ELSE LET row == rows[i]
         IN  IF ~Truthy(row.waistInches) THEN LastWaistFrom(rows, i - 1)
             ELSE IF ~FloatOk(row.waistInches) THEN Raised
             ELSE IF Float(row.waistInches) <= 0 THEN LastWaistFrom(rows, i - 1)
             ELSE [tag |-> "some",
                   inches |-> Num(Float(row.waistInches)),
                   date |-> row.waistDate]

GetLastWaist(rows) == LastWaistFrom(rows, Len(rows))

\* ----------------------------------------------------- report assembler
\* Grams per kilogram, and milligrams per pound (453.592 g).
GramsPerKg == 1000

MilligramsPerLb == 453592

\* round(a / b, 1) in tenths, for a >= 0 (no input used here is a tie).
RoundTenths(a, b) == (20 * a + b) \div (2 * b)

\* An entry of the provider's body-composition payload; 0 stands for a key
\* that is missing or null ("x.get(k, 0) or 0" makes both 0).
NoEntry ==
    [weight |-> 0, bodyFat |-> 0, bodyWater |-> 0, muscleMass |-> 0,
     calendarDate |-> 0]

\* get_stats, "Body composition - extract from Garmin data".
ExtractBodyComposition(body_composition, today) ==
    LET weight_list == body_composition.dateWeightList
        src == IF Len(weight_list) > 0 THEN weight_list[1]
               ELSE body_composition.totalAverage
    IN  [weight_grams |-> src.weight,
         body_fat |-> src.bodyFat,
         body_water |-> src.bodyWater,
         muscle_mass_grams |-> src.muscleMass,
         body_comp_date |->
            IF Len(weight_list) > 0 /\ src.calendarDate # 0
            THEN src.calendarDate ELSE today,
         has_today_body_comp |-> src.weight > 0]

\* get_stats, from "Convert weights" to the bodyComposition and waist groups
\* of the response.
BodyCompositionGroup(x, last_body_comp) ==
    IF ~x.has_today_body_comp /\ last_body_comp.tag = "some"
    THEN [weightKg |-> last_body_comp.weightKg,
          weightLbs |-> last_body_comp.weightLbs,
          bodyFatPercent |-> last_body_comp.bodyFatPercent,
          bodyWaterPercent |-> last_body_comp.bodyWaterPercent,
          muscleMassKg |-> last_body_comp.muscleMassKg,
          date |-> last_body_comp.date]
    ELSE [weightKg |-> Num(IF x.weight_grams # 0
                           THEN RoundTenths(x.weight_grams, GramsPerKg) ELSE 0),
          weightLbs |-> Num(IF x.weight_grams # 0
                            THEN RoundTenths(x.weight_grams * GramsPerKg, MilligramsPerLb)
                            ELSE 0),
          bodyFatPercent |-> Num(x.body_fat),
          bodyWaterPercent |-> Num(x.body_water),
          muscleMassKg |-> Num(IF x.muscle_mass_grams # 0
                               THEN RoundTenths(x.muscle_mass_grams, GramsPerKg) ELSE 0),
          date |-> DateStr(x.body_comp_date)]

WaistGroup(last_waist) ==
    IF last_waist.tag = "some"
    THEN [inches |-> last_waist.inches, date |-> last_waist.date]
    ELSE [inches |-> Num(0), date |-> EmptyStr]

\* None, and a str that is not the text of a number.
NullValue == [ty |-> "null", kind |-> "null", n |-> 0]

TextStr == [ty |-> "str", kind |-> "text", n |-> 0]

\* "level >= 0" and the comparisons after it raise TypeError on a str.
Comparable(v) == v.ty = "num"

\* An item of a values array is a list; item[1] is its level when it has one
\* (isinstance(item, list) and len(item) > 1).
HasLevel(item) == Len(item) > 1

LevelOf(item) == item[2]

\* Seconds one stress sample stands for.
StressSampleSeconds == 180

NoDurations == [rest |-> 0, low |-> 0, medium |-> 0, high |-> 0]

\* Mutant of StressBucket: the rest bucket ends below 25.
StressBucketBelow(level) ==
    IF level < 25 THEN "rest"
    ELSE IF level <= 50 THEN "low"
    ELSE IF level <= 75 THEN "medium"
    ELSE "high"

\* get_stats, "Stress data": the bucket of a measured level.
StressBucket(level) ==
    IF level <= 25 THEN "rest"
    ELSE IF level <= 50 THEN "low"
    ELSE IF level <= 75 THEN "medium"
    ELSE "high"

\* get_stats, "Stress data": the loop over stressValuesArray, from item i on,
\* with the durations summed so far.
RECURSIVE StressDurationsFrom(_, _, _)
StressDurationsFrom(stress_values, i, acc) ==
    IF i > Len(stress_values) THEN acc
    ELSE LET item == stress_values[i]
         IN  IF ~HasLevel(item) \/ LevelOf(item) = NullValue
             THEN StressDurationsFrom(stress_values, i + 1, acc)
             ELSE IF ~Comparable(LevelOf(item)) THEN Raised
             ELSE IF LevelOf(item).n < 0
             THEN StressDurationsFrom(stress_values, i + 1, acc)
             ELSE LET b == StressBucket(LevelOf(item).n)
                  IN  StressDurationsFrom(stress_values, i + 1,
                          [acc EXCEPT ![b] = @ + StressSampleSeconds])

StressDurations(stress_values) == StressDurationsFrom(stress_values, 1, NoDurations)

\* The sentinel bb_lowest starts from.
BodyBatteryFull == 100

\* The levels of a body-battery values array: item[1] of every item that has
\* one that is not None.
BodyBatteryLevels(values_array) ==
    LET kept == SelectSeq(values_array,
                          LAMBDA item : HasLevel(item) /\ LevelOf(item) # NullValue)
    IN  [i \in 1..Len(kept) |-> LevelOf(kept[i]).n]

\* get_stats, "Body battery": highest, lowest and current of the first
\* snapshot's values array.
BodyBatteryScan(values_array) ==
    LET levels == BodyBatteryLevels(values_array)
        all    == {levels[i] : i \in 1..Len(levels)}
        bb_highest == IF levels = <<>> THEN 0
                      ELSE CHOOSE m \in all : \A l \in all : l <= m
        bb_lowest  == IF levels = <<>> THEN BodyBatteryFull
                      ELSE CHOOSE m \in all : \A l \in all : m <= l
        bb_current == IF levels = <<>> THEN 0 ELSE levels[Len(levels)]
    IN  [current |-> bb_current,
         highest |-> bb_highest,
         lowest  |-> IF bb_lowest = BodyBatteryFull THEN 0 ELSE bb_lowest]

\* The response get_stats builds.
Response(today, steps, body_composition, csv_rows) ==
    [date |-> DateStr(today),
     totalSteps |-> Num(steps),
     bodyComposition |->
        BodyCompositionGroup(ExtractBodyComposition(body_composition, today),
                             GetLastBodyComposition(csv_rows)),
     waist |-> WaistGroup(GetLastWaist(csv_rows))]

\* A provider payload is a dict, a list or something else (shape); a key that
\* is missing or null reads as 0 or '' through "x.get(k, d) or d".
\* client.get_stats(today): the daily summary.
DailyEmpty == [shape |-> "dict", totalSteps |-> 0]

\* get_stats, "Intensity minutes" and the summary group: daily_stats.get is
\* called without a type test, so a payload that is not a dict raises.
SummaryGroup(daily_stats) ==
    IF daily_stats.shape # "dict" THEN Raised
    ELSE [totalSteps |-> Num(daily_stats.totalSteps)]

\* client.get_stress_data(today).
StressEmpty == [shape |-> "dict", avgStressLevel |-> 0, stressValuesArray |-> <<>>]

\* get_stats, the stress group of the response.
StressGroup(stress_data) ==
    IF stress_data.shape # "dict"
    THEN [averageLevel |-> 0] @@ NoDurations
    ELSE LET d == StressDurations(stress_data.stressValuesArray)
         IN  IF d = Raised THEN Raised
             ELSE [averageLevel |-> stress_data.avgStressLevel] @@ d

\* get_stats, the bodyBattery group: from the first snapshot of the list.
BodyBatteryGroup(body_battery) ==
    IF Len(body_battery) = 0
    THEN [charged |-> 0, drained |-> 0] @@ BodyBatteryScan(<<>>)
    ELSE [charged |-> body_battery[1].charged, drained |-> body_battery[1].drained]
            @@ BodyBatteryScan(body_battery[1].bodyBatteryValuesArray)

\* client.get_hrv_data(today): the summary's last-night average, its status
\* and the baseline's balanced range.
HrvEmpty ==
    [shape |-> "dict", lastNightAvg |-> 0, status |-> "", balancedLow |-> 0,
     balancedHigh |-> 0]

\* get_stats, "HRV data extraction".
HrvGroup(hrv_data) ==
    IF hrv_data.shape # "dict"
    THEN [average |-> 0, status |-> "", balanced |-> 0, unbalanced |-> 0]
    ELSE LET inRange == /\ hrv_data.lastNightAvg >= hrv_data.balancedLow
                        /\ hrv_data.lastNightAvg <= hrv_data.balancedHigh
         IN  [average |-> hrv_data.lastNightAvg,
              status |-> hrv_data.status,
              balanced |-> IF inRange THEN 1 ELSE 0,
              unbalanced |-> IF inRange THEN 0 ELSE 1]

\* client.get_training_readiness(today): a list of entries, or one entry.
ReadinessEmpty == [shape |-> "dict", score |-> 0, level |-> "", items |-> <<>>]

\* get_stats, "Training Readiness extraction": the first element of a list is
\* used without a type test.
TrainingReadinessGroup(training_readiness) ==
    IF training_readiness.shape = "list" /\ Len(training_readiness.items) > 0
    THEN LET tr_data == training_readiness.items[1]
         IN  IF tr_data.shape # "dict" THEN Raised
             ELSE [score |-> tr_data.score, status |-> tr_data.level]
    ELSE IF training_readiness.shape = "dict"
    THEN [score |-> training_readiness.score, status |-> training_readiness.level]
    ELSE [score |-> 0, status |-> ""]

\* Mutant of CsvRow: the row stores what the response reports, carried-forward
\* values included.
CsvRowCarried(today, steps, body_composition, csv_rows) ==
    LET r == Response(today, steps, body_composition, csv_rows)
    IN  [date |-> DateStr(today),
         totalSteps |-> Num(steps),
         weightKg |-> r.bodyComposition.weightKg,
         weightLbs |-> r.bodyComposition.weightLbs,
         bodyFatPercent |-> r.bodyComposition.bodyFatPercent,
         bodyWaterPercent |-> r.bodyComposition.bodyWaterPercent,
         muscleMassKg |-> r.bodyComposition.muscleMassKg,
         bodyCompDate |-> r.bodyComposition.date,
         waistInches |-> IF Truthy(r.waist.inches) THEN r.waist.inches ELSE EmptyStr,
         waistDate |-> r.waist.date]

\* The csv_row get_stats builds: the slowly-changing columns hold the fresh
\* body composition when there is one and '' otherwise; waist is left ''.
CsvRow(today, steps, body_composition, csv_rows) ==
    LET x == ExtractBodyComposition(body_composition, today)
        g == BodyCompositionGroup(x, GetLastBodyComposition(csv_rows))
        fresh == x.has_today_body_comp
    IN  [date |-> DateStr(today),
         totalSteps |-> Num(steps),
         weightKg |-> IF fresh THEN g.weightKg ELSE EmptyStr,
         weightLbs |-> IF fresh THEN g.weightLbs ELSE EmptyStr,
         bodyFatPercent |-> IF fresh THEN g.bodyFatPercent ELSE EmptyStr,
         bodyWaterPercent |-> IF fresh THEN g.bodyWaterPercent ELSE EmptyStr,
         muscleMassKg |-> IF fresh THEN g.muscleMassKg ELSE EmptyStr,
         bodyCompDate |-> IF fresh THEN g.date ELSE EmptyStr,
         waistInches |-> EmptyStr,
         waistDate |-> EmptyStr]

\* ------------------------------------------------------------- upserts
\* Mutant of MergeExisting: only the body composition is preserved.
MergeExistingBodyOnly(existing, csv_row) ==
    [c \in Columns |->
        IF Truthy(existing.weightKg) /\ c \in BodyCompColumns THEN existing[c]
        ELSE csv_row[c]]

\* get_stats, "ALWAYS preserve waist / body comp from existing row if it has
\* data": the row that replaces the existing one.
MergeExisting(existing, csv_row) ==
    LET keepWaist == Truthy(existing.waistInches)
        keepBody  == Truthy(existing.weightKg)
    IN  [c \in Columns |->
            IF keepWaist /\ c \in WaistColumns THEN existing[c]
            ELSE IF keepBody /\ c \in BodyCompColumns THEN existing[c]
            ELSE csv_row[c]]

\* Mutant of UpsertStats: the row is appended without looking for the date.
UpsertStatsAppendOnly(csv_rows, csv_row, today) ==
    SortByDate(Append(csv_rows, csv_row))

\* get_stats, "Upsert row" and "Sort by date".
UpsertStats(csv_rows, csv_row, today) ==
    LET i == FindDate(csv_rows, today)
    IN  SortByDate(IF i = 0 THEN Append(csv_rows, csv_row)
                   ELSE [csv_rows EXCEPT ![i] = MergeExisting(csv_rows[i], csv_row)])

\* Mutant of UpsertWaist: today's row also gets the steps column reset.
UpsertWaistResetSteps(csv_rows, waist_inches, today) ==
    LET i == FindDate(csv_rows, today)
        new_row == [[c \in Columns |-> EmptyStr]
                        EXCEPT !["date"] = DateStr(today),
                               !["waistInches"] = Num(waist_inches),
                               !["waistDate"] = DateStr(today)]
    IN  SortByDate(IF i = 0 THEN Append(csv_rows, new_row)
                   ELSE [csv_rows EXCEPT ![i]["waistInches"] = Num(waist_inches),
                                         ![i]["waistDate"] = DateStr(today),
                                         ![i]["totalSteps"] = Num(0)])

\* Mutant of UpsertWaist: a row for today is appended without looking for one.
UpsertWaistAppendOnly(csv_rows, waist_inches, today) ==
    SortByDate(Append(csv_rows,
        [[c \in Columns |-> EmptyStr]
            EXCEPT !["date"] = DateStr(today),
                   !["waistInches"] = Num(waist_inches),
                   !["waistDate"] = DateStr(today)]))

\* Mutant of UpsertWaist: today's row is replaced by a row with just the
\* waist data.
UpsertWaistFreshRow(csv_rows, waist_inches, today) ==
    LET i == FindDate(csv_rows, today)
        new_row == [[c \in Columns |-> EmptyStr]
                        EXCEPT !["date"] = DateStr(today),
                               !["waistInches"] = Num(waist_inches),
                               !["waistDate"] = DateStr(today)]
    IN  SortByDate(IF i = 0 THEN Append(csv_rows, new_row)
                   ELSE [csv_rows EXCEPT ![i] = new_row])

\* save_waist, "Find or create today's row" and "Sort by date".
UpsertWaist(csv_rows, waist_inches, today) ==
    LET i == FindDate(csv_rows, today)
        new_row == [[c \in Columns |-> EmptyStr]
                        EXCEPT !["date"] = DateStr(today),
                               !["waistInches"] = Num(waist_inches),
                               !["waistDate"] = DateStr(today)]
    IN  SortByDate(IF i = 0 THEN Append(csv_rows, new_row)
                   ELSE [csv_rows EXCEPT ![i]["waistInches"] = Num(waist_inches),
                                         ![i]["waistDate"] = DateStr(today)])

\* ------------------------------------------------- save_waist's request
\* The value under 'inches' in the request's JSON body: a number, a str, true,
\* null, or no such key.
MissingKey == [ty |-> "missing", kind |-> "missing", n |-> 0]

BoolTrue == [ty |-> "bool", kind |-> "true", n |-> 1]

\* The str 'nan'.
NaNStr == [ty |-> "str", kind |-> "nan", n |-> 0]

\* float(True), in tenths.
FloatOfTrue == 10

\* save_waist, "float(data.get('inches', 0))": the float, or Raised when
\* float() raises (ValueError on other text, TypeError on None).
ParseInches(v) ==
    IF v.ty = "missing" THEN Num(0)
    ELSE IF v.ty = "num" THEN v
    ELSE IF v.ty = "bool" THEN Num(FloatOfTrue)
    ELSE IF v.ty = "str" /\ v.kind = "num" THEN Num(v.n)
    ELSE IF v.ty = "str" /\ v.kind = "nan" THEN NaN
    ELSE Raised

\* "waist_inches <= 0": false for nan.
NotPositive(x) == x.kind # "nan" /\ x.n <= 0

\* save_waist, "Find or create today's row" for the float x.
UpsertWaistValue(csv_rows, x, today) ==
    LET rows == UpsertWaist(csv_rows, x.n, today)
    IN  [rows EXCEPT ![FindDate(rows, today)]["waistInches"] = x]

\* ------------------------------------------------------------------ state
VARIABLES
    token,   \* BLOB_TOKEN is set (fixed for the life of the process)
    store,   \* the blob store's objects under the ledger's pathname
    last,    \* the last completed invocation: its inputs, what it read, its answer
    pc,      \* per concurrent invocation: the store call it makes next
    loc,     \* per concurrent invocation: its inputs and local variables
    events,  \* the ledger reads and puts done by concurrent invocations, in order
    arg,     \* the rows handed to a carry-forward resolver
    res      \* what the resolver returned for them

vars == <<token, store, last, pc, loc, events, arg, res>>

\* The serverless platform runs at most this many invocations at once here.
Procs == {1, 2}

\* What read_csv_from_blob returns when every call it makes succeeds.
Ledger == ReadCsvFromBlob(token, store, TRUE, TRUE)

\* ----------------------------------------------------------------- inputs
\* client.get_stats(today)['totalSteps'].
StepsValues == {8000}

\* client.get_body_composition(start, today): nothing; an entry with body fat
\* but no weight; a list, newest first, whose entries carry their date; only
\* the running average.
BodyNothing == [dateWeightList |-> <<>>, totalAverage |-> NoEntry]

BodyFatOnly ==
    [dateWeightList |->
        <<[weight |-> 0, bodyFat |-> 205, bodyWater |-> 0, muscleMass |-> 0,
           calendarDate |-> 1]>>,
     totalAverage |-> NoEntry]

BodyList ==
    [dateWeightList |->
        <<[weight |-> 70200, bodyFat |-> 205, bodyWater |-> 550,
           muscleMass |-> 30120, calendarDate |-> 1],
          [weight |-> 69040, bodyFat |-> 210, bodyWater |-> 540,
           muscleMass |-> 30010, calendarDate |-> 1]>>,
     totalAverage |-> NoEntry]

BodyAverage ==
    [dateWeightList |-> <<>>,
     totalAverage |-> [weight |-> 71040, bodyFat |-> 0, bodyWater |-> 0,
                       muscleMass |-> 0, calendarDate |-> 0]]

BodyCompPayloads == {BodyNothing, BodyFatOnly, BodyList, BodyAverage}

\* float(data.get('inches', 0)) of the request.
InchesValues == {0, 340}

\* How a ledger read goes: every call succeeds, the listing fails, or the
\* fetch of the object fails (exception, timeout, non-200).
ReadFaults == {"none", "list", "fetch"}

NoInvocation ==
    [op |-> "none", today |-> 0, status |-> 0, steps |-> 0, body |-> BodyNothing,
     inches |-> 0, readOk |-> FALSE, writeOk |-> FALSE, repeat |-> FALSE,
     before |-> <<>>, read |-> <<>>, response |-> NoneValue]

NoLocal ==
    [op |-> "none", today |-> 0, steps |-> 0, body |-> BodyNothing, inches |-> 0,
     read |-> <<>>, rows |-> <<>>, old_urls |-> <<>>]

Init ==
    /\ token \in BOOLEAN
    /\ store = <<>>
    /\ last = NoInvocation
    /\ pc = [p \in Procs |-> "idle"]
    /\ loc = [p \in Procs |-> NoLocal]
    /\ events = <<>>
    /\ arg = <<>>
    /\ res = [fn |-> "none", out |-> NoneValue]

\* Handles are opaque: once no invocation holds one, the objects are named
\* 1, 2, ... in upload order.
Canonical(objects) == [i \in 1..Len(objects) |-> [objects[i] EXCEPT !.url = i]]

\* ------------------------------------------------------------- handlers
\* get_stats when get_garmin_client raises: the error response, before any
\* ledger call.
GetStatsNoSession ==
    /\ last' = [NoInvocation EXCEPT !.op = "get_stats", !.status = 500,
                                    !.before = Ledger]
    /\ UNCHANGED <<token, store, pc, loc, events, arg, res>>

\* get_stats with a provider session: read the ledger, resolve the carried
\* values, assemble the response and the row, upsert, sort, write.  fault and
\* putOk are how the store answers; detail says whether last keeps the whole
\* invocation or only its outcome.
DoGetStats(today, steps, body, fault, putOk, detail) ==
    LET csv_rows == ReadCsvFromBlob(token, store, fault # "list", fault # "fetch")
        raised   == \/ GetLastBodyComposition(csv_rows).tag = "raise"
                    \/ GetLastWaist(csv_rows).tag = "raise"
        rows     == UpsertStats(csv_rows, CsvRow(today, steps, body, csv_rows), today)
        w        == WriteCsvToBlob(token, store, rows, TRUE, putOk, {})
        out      == [NoInvocation EXCEPT
                        !.op = "get_stats", !.today = today,
                        !.readOk = token /\ fault = "none",
                        !.status = IF raised THEN 500 ELSE 200,
                        !.writeOk = ~raised /\ w.ok]
    IN  /\ UNCHANGED <<token, pc, loc, events, arg, res>>
        /\ store' = IF raised THEN store ELSE Canonical(w.store)
        /\ last' = IF ~detail THEN out
                   ELSE IF raised
                   THEN [out EXCEPT !.steps = steps, !.body = body,
                                    !.before = Ledger, !.read = csv_rows]
                   ELSE [out EXCEPT
                            !.steps = steps, !.body = body,
                            !.before = Ledger, !.read = csv_rows,
                            !.response = Response(today, steps, body, csv_rows),
                            !.repeat = /\ last.op = "get_stats"
                                       /\ last.status = 200
                                       /\ last.writeOk
                                       /\ last.today = today
                                       /\ last.steps = steps
                                       /\ last.body = body]

\* save_waist: reject a measurement that is not positive; otherwise read the
\* ledger, set today's waist, sort, write, and report whether the write
\* succeeded.
DoSaveWaist(today, waist_inches, fault, putOk, detail) ==
    LET csv_rows == ReadCsvFromBlob(token, store, fault # "list", fault # "fetch")
        rows     == UpsertWaist(csv_rows, waist_inches, today)
        w        == WriteCsvToBlob(token, store, rows, TRUE, putOk, {})
        valid    == waist_inches > 0
        out      == [NoInvocation EXCEPT
                        !.op = "save_waist", !.today = today,
                        !.inches = waist_inches,
                        !.readOk = valid /\ token /\ fault = "none",
                        !.writeOk = valid /\ w.ok,
                        !.status = IF ~valid THEN 400
                                   ELSE IF w.ok THEN 200 ELSE 500]
    IN  /\ UNCHANGED <<token, pc, loc, events, arg, res>>
        /\ store' = IF valid THEN Canonical(w.store) ELSE store
        /\ last' = IF ~detail THEN out
                   ELSE [out EXCEPT !.before = Ledger,
                                    !.read = IF valid THEN csv_rows ELSE <<>>]

\* ------------------------------------------------------- specifications
\* Spec: invocations run one at a time and every store call succeeds; each
\* invocation is recorded in last.
GetStats ==
    \E today \in Dates, steps \in StepsValues, body \in BodyCompPayloads :
        DoGetStats(today, steps, body, "none", TRUE, TRUE)

SaveWaist ==
    \E today \in Dates, waist_inches \in InchesValues :
        DoSaveWaist(today, waist_inches, "none", TRUE, TRUE)

Next == GetStatsNoSession \/ GetStats \/ SaveWaist

Spec == Init /\ [][Next]_vars

\* SpecFaults: invocations run one at a time; a ledger read may fail at the
\* listing or at the fetch, and a put may fail.  last keeps the outcome only.
FaultyPayloads == {BodyNothing, BodyList}

GetStatsFaulty ==
    \E today \in Dates, steps \in StepsValues, body \in FaultyPayloads,
       fault \in ReadFaults, putOk \in BOOLEAN :
        DoGetStats(today, steps, body, fault, putOk, FALSE)

SaveWaistFaulty ==
    \E today \in Dates, waist_inches \in InchesValues,
       fault \in ReadFaults, putOk \in BOOLEAN :
        DoSaveWaist(today, waist_inches, fault, putOk, FALSE)

NextFaults == GetStatsFaulty \/ SaveWaistFaulty

SpecFaults == Init /\ [][NextFaults]_vars

\* SpecConc: two invocations run at once on a ledger left by earlier ones,
\* interleaving at their store calls; every store call succeeds.
SeedLedgers ==
    {<<>>,
     UpsertWaist(<<>>, 340, 1),
     UpsertStats(<<>>, CsvRow(1, 8000, BodyList, <<>>), 1)}

InitConc ==
    /\ token = TRUE
    /\ \E rows \in SeedLedgers :
          store = IF rows = <<>> THEN <<>> ELSE PutBlob(<<>>, rows, {})
    /\ last = NoInvocation
    /\ pc = [p \in Procs |-> "idle"]
    /\ loc = [p \in Procs |-> NoLocal]
    /\ events = <<>>
    /\ arg = <<>>
    /\ res = [fn |-> "none", out |-> NoneValue]

\* The urls some invocation still means to delete.
HeldUrls == UNION {{loc[p].old_urls[i] : i \in 1..Len(loc[p].old_urls)} : p \in Procs}

\* get_stats up to its call of write_csv_to_blob.
ReadForStats(p) ==
    /\ pc[p] = "idle"
    /\ \E today \in Dates, steps \in StepsValues, body \in BodyCompPayloads :
        LET csv_rows == ReadCsvFromBlob(token, store, TRUE, TRUE)
            raised   == \/ GetLastBodyComposition(csv_rows).tag = "raise"
                        \/ GetLastWaist(csv_rows).tag = "raise"
        IN  /\ loc' = [loc EXCEPT ![p] =
                    [NoLocal EXCEPT
                        !.op = "get_stats", !.today = today, !.steps = steps,
                        !.body = body, !.read = csv_rows,
                        !.rows = UpsertStats(csv_rows,
                                    CsvRow(today, steps, body, csv_rows), today)]]
            /\ pc' = [pc EXCEPT ![p] = IF raised THEN "done" ELSE "list"]
    /\ events' = Append(events, <<p, "read">>)
    /\ UNCHANGED <<token, store, last, arg, res>>

\* save_waist, with a positive measurement, up to its call of
\* write_csv_to_blob.
ReadForWaist(p) ==
    /\ pc[p] = "idle"
    /\ \E today \in Dates, waist_inches \in InchesValues :
        LET csv_rows == ReadCsvFromBlob(token, store, TRUE, TRUE)
        IN  /\ waist_inches > 0
            /\ loc' = [loc EXCEPT ![p] =
                    [NoLocal EXCEPT
                        !.op = "save_waist", !.today = today,
                        !.inches = waist_inches, !.read = csv_rows,
                        !.rows = UpsertWaist(csv_rows, waist_inches, today)]]
    /\ pc' = [pc EXCEPT ![p] = "list"]
    /\ events' = Append(events, <<p, "read">>)
    /\ UNCHANGED <<token, store, last, arg, res>>

\* write_csv_to_blob, "Get existing blobs to delete after upload".
ListOld(p) ==
    /\ pc[p] = "list"
    /\ LET old_blobs == ListBlobs(token, store, TRUE)
       IN  loc' = [loc EXCEPT ![p].old_urls =
                        [i \in 1..Len(old_blobs) |-> old_blobs[i].url]]
    /\ pc' = [pc EXCEPT ![p] = "put"]
    /\ UNCHANGED <<token, store, last, events, arg, res>>

\* write_csv_to_blob, the put.
Put(p) ==
    /\ pc[p] = "put"
    /\ store' = PutBlob(store, loc[p].rows, HeldUrls)
    /\ pc' = [pc EXCEPT ![p] = IF loc[p].old_urls = <<>> THEN "done" ELSE "delete"]
    /\ events' = Append(events, <<p, "put">>)
    /\ UNCHANGED <<token, last, loc, arg, res>>

\* write_csv_to_blob, one turn of "for old_url in old_urls: delete_blob".
DeleteOld(p) ==
    /\ pc[p] = "delete"
    /\ store' = DeleteBlob(store, Head(loc[p].old_urls), TRUE)
    /\ loc' = [loc EXCEPT ![p].old_urls = Tail(@)]
    /\ pc' = [pc EXCEPT ![p] = IF Len(loc[p].old_urls) = 1 THEN "done" ELSE "delete"]
    /\ UNCHANGED <<token, last, events, arg, res>>

NextConc ==
    \E p \in Procs :
        ReadForStats(p) \/ ReadForWaist(p) \/ ListOld(p) \/ Put(p) \/ DeleteOld(p)

SpecConc == InitConc /\ [][NextConc]_vars

\* SpecResolver: the carry-forward resolvers applied to ledgers of up to
\* MaxRows rows, one row per date, whose weightKg is '', "0.0" or a weight and
\* whose waistInches is '', "0.0" or a measurement.
MaxRows == 2

WeightCells == {EmptyStr, NumStr(0), NumStr(702), NumStr(710)}

WaistCells == {EmptyStr, NumStr(0), NumStr(340)}

\* A ledger row for date d with the given weightKg and waistInches cells; the
\* other cells of a group are filled when its first cell is.
LedgerRow(d, weight, waist) ==
    [date |-> DateStr(d),
     totalSteps |-> NumStr(8000),
     weightKg |-> weight,
     weightLbs |-> IF weight = EmptyStr THEN EmptyStr
                   ELSE NumStr(RoundTenths(weight.n * 100 * GramsPerKg, MilligramsPerLb)),
     bodyFatPercent |-> IF weight = EmptyStr THEN EmptyStr ELSE NumStr(200 + d),
     bodyWaterPercent |-> IF weight = EmptyStr THEN EmptyStr ELSE NumStr(550 + d),
     muscleMassKg |-> IF weight = EmptyStr THEN EmptyStr ELSE NumStr(300 + d),
     bodyCompDate |-> IF weight = EmptyStr THEN EmptyStr ELSE DateStr(d),
     waistInches |-> waist,
     waistDate |-> IF waist = EmptyStr THEN EmptyStr ELSE DateStr(d)]

ResolverInputs ==
    UNION {{[i \in 1..n |-> LedgerRow(i, f[i][1], f[i][2])] :
                f \in [1..n -> WeightCells \X WaistCells]} : n \in 0..MaxRows}

InitResolver ==
    /\ token = TRUE
    /\ store = <<>>
    /\ last = NoInvocation
    /\ pc = [p \in Procs |-> "idle"]
    /\ loc = [p \in Procs |-> NoLocal]
    /\ events = <<>>
    /\ arg \in ResolverInputs
    /\ res = [fn |-> "none", out |-> NoneValue]

ResolveBodyComposition ==
    /\ res' = [fn |-> "body", out |-> GetLastBodyComposition(arg)]
    /\ UNCHANGED <<token, store, last, pc, loc, events, arg>>

ResolveWaist ==
    /\ res' = [fn |-> "waist", out |-> GetLastWaist(arg)]
    /\ UNCHANGED <<token, store, last, pc, loc, events, arg>>

NextResolver == ResolveBodyComposition \/ ResolveWaist

SpecResolver == InitResolver /\ [][NextResolver]_vars

\* SpecStore: the store under one writer running write_csv_to_blob call by
\* call, and readers running read_csv_from_blob at any moment in between.  The
\* store lists its objects in any order; a listing, a fetch, a put or a delete
\* may fail; the store holds at most MaxObjects objects when a write starts.
\* Here last is the write that finished last, until the next one starts, and
\* res is the latest read since the writer's last call.
MaxObjects == 2

\* The rows handed to write_csv_to_blob.
WriteRows == SeedLedgers \ {<<>>}

\* The orders in which the store may list n objects.
ListingOrders(n) ==
    {f \in [1..n -> 1..n] : \A i, j \in 1..n : f[i] = f[j] => i = j}

\* list_blobs when the store answers with its objects in the given order.
ListBlobsIn(token_set, objects, listOk, order) ==
    LET listing == ListBlobs(token_set, objects, listOk)
    IN  [i \in 1..Len(listing) |-> listing[order[i]]]

\* read_csv_from_blob on such a listing.
ReadCsvListed(token_set, objects, listOk, fetchOk, order) ==
    IF ~token_set THEN <<>>
    ELSE LET blob_url == GetBlobUrl(ListBlobsIn(token_set, objects, listOk, order))
         IN  IF blob_url = 0 THEN <<>>
             ELSE FetchBlob(objects, blob_url, fetchOk)

\* How the put goes.  created: answered 200, the object gets a handle of its
\* own.  replaced: answered 200, and with 'x-add-random-suffix: false' the
\* object is stored under the handle the pathname already has.  rejected: any
\* other status, or an exception before the request reached the store.
\* timeout: requests.put raises after 30 s although the store has stored the
\* object.
PutOutcomes == {"created", "replaced", "rejected", "timeout"}

\* The store after a put with the given outcome.
StoreAfterPut(objects, rows, held, outcome) ==
    CASE outcome = "rejected" -> objects
      [] outcome \in {"created", "timeout"} -> PutBlob(objects, rows, held)
      [] outcome = "replaced" ->
            IF objects = <<>> THEN PutBlob(objects, rows, held)
            ELSE LET url == objects[Len(objects)].url
                 IN  Append(SelectSeq(objects, LAMBDA b : b.url # url),
                            [url |-> url, rows |-> CsvContent(rows)])

\* response.status_code in [200, 201], as the writer sees it.
PutAnswered(outcome) == outcome \in {"created", "replaced"}

\* Mutant of AfterPut: the old objects are deleted whatever the put answered.
AfterPutAlways(outcome, old_urls) ==
    IF old_urls # <<>> THEN "delete" ELSE "idle"

\* write_csv_to_blob after the put: the delete loop is entered only on
\* 200/201 and only when there is something to delete.
AfterPut(outcome, old_urls) ==
    IF PutAnswered(outcome) /\ old_urls # <<>> THEN "delete" ELSE "idle"

NoWrite ==
    [op |-> "none", rows |-> <<>>, old_urls |-> <<>>, listed |-> <<>>,
     before |-> <<>>, deleted |-> TRUE, put |-> "none"]

InitStore ==
    /\ token \in BOOLEAN
    /\ \E rows \in SeedLedgers :
          store = IF rows = <<>> THEN <<>> ELSE PutBlob(<<>>, rows, {})
    /\ last = NoInvocation
    /\ pc = [p \in Procs |-> "idle"]
    /\ loc = [p \in Procs |-> NoWrite]
    /\ events = <<>>
    /\ arg = <<>>
    /\ res = [fn |-> "none", out |-> NoneValue]

\* What a finished write leaves in last.
WriteDone(w, ok) ==
    [op |-> "write", ok |-> ok, rows |-> w.rows, listed |-> w.listed,
     before |-> w.before, deleted |-> w.deleted, put |-> w.put]

\* read_csv_from_blob by a reader.
StoreRead ==
    \E fault \in ReadFaults, order \in ListingOrders(Len(store)) :
        /\ res' = [fn |-> "read", fault |-> fault, order |-> order,
                   listed |-> Len(ListBlobsIn(token, store, fault # "list", order)),
                   newest |-> IF store = <<>> THEN <<>> ELSE store[Len(store)].rows,
                   between |-> /\ pc[1] = "delete"
                               /\ loc[1].old_urls = loc[1].listed,
                   written |-> CsvContent(loc[1].rows),
                   out |-> ReadCsvListed(token, store, fault # "list",
                                         fault # "fetch", order)]
        /\ UNCHANGED <<token, store, last, pc, loc, events, arg>>

\* write_csv_to_blob up to the put: the token test and the listing of the
\* objects to delete afterwards.
StoreWriteList ==
    /\ pc[1] = "idle"
    /\ Len(store) < MaxObjects
    /\ \E rows \in WriteRows, listOk \in BOOLEAN, order \in ListingOrders(Len(store)) :
        LET old_blobs == ListBlobsIn(token, store, listOk, order)
            w == [NoWrite EXCEPT
                    !.op = "write", !.rows = rows, !.before = store,
                    !.old_urls = [i \in 1..Len(old_blobs) |-> old_blobs[i].url],
                    !.listed = [i \in 1..Len(old_blobs) |-> old_blobs[i].url]]
        IN  IF ~token
            THEN /\ last' = WriteDone([w EXCEPT !.put = "skipped"], FALSE)
                 /\ UNCHANGED <<pc, loc>>
            ELSE /\ loc' = [loc EXCEPT ![1] = w]
                 /\ pc' = [pc EXCEPT ![1] = "put"]
                 /\ last' = NoInvocation
    /\ res' = [fn |-> "none", out |-> NoneValue]
    /\ UNCHANGED <<token, store, events, arg>>

\* write_csv_to_blob, the put and the test of its status.
StoreWritePut ==
    /\ pc[1] = "put"
    /\ \E outcome \in PutOutcomes :
        LET w == [loc[1] EXCEPT !.put = outcome]
            next == AfterPut(outcome, w.old_urls)
        IN  /\ store' = StoreAfterPut(store, w.rows,
                            {w.old_urls[i] : i \in 1..Len(w.old_urls)}, outcome)
            /\ pc' = [pc EXCEPT ![1] = next]
            /\ loc' = [loc EXCEPT ![1] = IF next = "idle" THEN NoWrite ELSE w]
            /\ last' = IF next = "idle" THEN WriteDone(w, PutAnswered(outcome))
                       ELSE last
    /\ res' = [fn |-> "none", out |-> NoneValue]
    /\ UNCHANGED <<token, events, arg>>

\* write_csv_to_blob, one turn of "for old_url in old_urls: delete_blob".
StoreWriteDelete ==
    /\ pc[1] = "delete"
    /\ \E delOk \in BOOLEAN :
        LET w == [loc[1] EXCEPT !.old_urls = Tail(@),
                                !.deleted = @ /\ delOk]
            finished == w.old_urls = <<>>
        IN  /\ store' = DeleteBlob(store, Head(loc[1].old_urls), delOk)
            /\ pc' = [pc EXCEPT ![1] = IF finished THEN "idle" ELSE "delete"]
            /\ loc' = [loc EXCEPT ![1] = IF finished THEN NoWrite ELSE w]
            /\ last' = IF finished THEN WriteDone(w, PutAnswered(w.put)) ELSE last
    /\ res' = [fn |-> "none", out |-> NoneValue]
    /\ UNCHANGED <<token, events, arg>>

NextStore == StoreRead \/ StoreWriteList \/ StoreWritePut \/ StoreWriteDelete

SpecStore == InitStore /\ [][NextStore]_vars

\* SpecSeries: the stress and body-battery scans applied to values arrays of
\* up to MaxSamples items; an item is [timestamp, level] with a level that is
\* None or a number, or a list too short to hold a level.
MaxSamples == 3

SampleLevels == {-1, 0, 25, 26, 50, 51, 75, 76, 100}

SampleItems ==
    {<<Num(0), Num(l)>> : l \in SampleLevels}
        \cup {<<Num(0), NullValue>>, <<Num(0)>>}

\* Ten samples at level 10 and ten at level 90; [[t0,20],[t1,80],[t2,55]].
StressExample == [i \in 1..20 |-> <<Num(i), Num(IF i <= 10 THEN 10 ELSE 90)>>]

BodyBatteryExample == <<<<Num(0), Num(20)>>, <<Num(1), Num(80)>>, <<Num(2), Num(55)>>>>

SeriesInputs ==
    UNION {[1..n -> SampleItems] : n \in 0..MaxSamples}
        \cup {StressExample, BodyBatteryExample}

InitSeries ==
    /\ token = TRUE
    /\ store = <<>>
    /\ last = NoInvocation
    /\ pc = [p \in Procs |-> "idle"]
    /\ loc = [p \in Procs |-> NoLocal]
    /\ events = <<>>
    /\ arg \in SeriesInputs
    /\ res = [fn |-> "none", out |-> NoneValue]

BucketStress ==
    /\ res' = [fn |-> "stress", out |-> StressDurations(arg)]
    /\ UNCHANGED <<token, store, last, pc, loc, events, arg>>

ScanBodyBattery ==
    /\ res' = [fn |-> "battery", out |-> BodyBatteryScan(arg)]
    /\ UNCHANGED <<token, store, last, pc, loc, events, arg>>

NextSeries == BucketStress \/ ScanBodyBattery

SpecSeries == InitSeries /\ [][NextSeries]_vars

\* SpecReport: one get_stats invocation, with a provider session, on a ledger
\* left by earlier invocations.  Each provider category either raises in its
\* fetch or returns a payload, well-formed or not; the put of the ledger write
\* may fail.
Categories == {"daily", "stress", "battery", "body", "hrv", "readiness"}

\* The value each category's variable holds when its fetch raises.
EmptyPayload(c) ==
    CASE c = "daily" -> DailyEmpty
      [] c = "stress" -> StressEmpty
      [] c = "battery" -> <<>>
      [] c = "body" -> BodyNothing
      [] c = "hrv" -> HrvEmpty
      [] c = "readiness" -> ReadinessEmpty

DailyOk == [shape |-> "dict", totalSteps |-> 8000]

\* A daily summary that is a non-empty list.
DailyList == [shape |-> "list", totalSteps |-> 0]

StressOk ==
    [shape |-> "dict", avgStressLevel |-> 30,
     stressValuesArray |-> <<<<Num(0), Num(10)>>, <<Num(1), Num(90)>>>>]

\* A stress series with a level that is a str.
StressText ==
    [shape |-> "dict", avgStressLevel |-> 30,
     stressValuesArray |-> <<<<Num(0), Num(10)>>, <<Num(1), TextStr>>>>]

BatteryOk ==
    <<[charged |-> 40, drained |-> 35, bodyBatteryValuesArray |-> BodyBatteryExample]>>

HrvOk ==
    [shape |-> "dict", lastNightAvg |-> 45, status |-> "BALANCED",
     balancedLow |-> 40, balancedHigh |-> 60]

ReadinessOk ==
    [shape |-> "list", score |-> 0, level |-> "",
     items |-> <<[shape |-> "dict", score |-> 72, level |-> "HIGH"]>>]

\* A training-readiness list whose first element is not a dict.
ReadinessText ==
    [shape |-> "list", score |-> 0, level |-> "",
     items |-> <<[shape |-> "str", score |-> 0, level |-> ""]>>]

\* What the provider can return for a category.
Payloads(c) ==
    CASE c = "daily" -> {DailyOk, DailyList}
      [] c = "stress" -> {StressOk, StressText}
      [] c = "battery" -> {BatteryOk}
      [] c = "body" -> {BodyList}
      [] c = "hrv" -> {HrvOk}
      [] c = "readiness" -> {ReadinessOk, ReadinessText}

\* The well-formed payload of a category.
GoodPayload(c) ==
    CASE c = "daily" -> DailyOk
      [] c = "stress" -> StressOk
      [] c = "battery" -> BatteryOk
      [] c = "body" -> BodyList
      [] c = "hrv" -> HrvOk
      [] c = "readiness" -> ReadinessOk

\* How the fetch of a category can go: the call raises, or returns one of
\* the category's payloads.
OutcomesOf(c) ==
    {[failed |-> TRUE, payload |-> GoodPayload(c)]}
        \cup {[failed |-> FALSE, payload |-> p] : p \in Payloads(c)}

\* How the fetches of one invocation go.
FetchOutcomes ==
    {[daily |-> d, stress |-> s, battery |-> b, body |-> w, hrv |-> h, readiness |-> r] :
        d \in OutcomesOf("daily"), s \in OutcomesOf("stress"),
        b \in OutcomesOf("battery"), w \in OutcomesOf("body"),
        h \in OutcomesOf("hrv"), r \in OutcomesOf("readiness")}

\* get_stats, the eleven "try: x = client.get_...(today) or {} / except".
Fetched(outcomes) ==
    [c \in Categories |->
        IF outcomes[c].failed THEN EmptyPayload(c) ELSE outcomes[c].payload]

\* The response get_stats builds from what it fetched and the ledger rows it
\* read, or Raised when a normalizer raises.
Report(today, fetched, csv_rows) ==
    LET summary == SummaryGroup(fetched["daily"])
        stress  == StressGroup(fetched["stress"])
        tr      == TrainingReadinessGroup(fetched["readiness"])
    IN  IF \/ GetLastBodyComposition(csv_rows) = Raised
           \/ GetLastWaist(csv_rows) = Raised
           \/ Raised \in {summary, stress, tr}
        THEN Raised
        ELSE [stress |-> stress,
              bodyBattery |-> BodyBatteryGroup(fetched["battery"]),
              hrv |-> HrvGroup(fetched["hrv"]),
              trainingReadiness |-> tr]
                @@ Response(today, fetched["daily"].totalSteps, fetched["body"], csv_rows)

\* Mutant of GetStatsStatus: a failed ledger write is answered like in
\* save_waist.
GetStatsStatusWriteChecked(raised, write_ok) ==
    IF raised \/ ~write_ok THEN 500 ELSE 200

\* get_stats: 500 from the except clause, otherwise the report; the value
\* write_csv_to_blob returns is not looked at.
GetStatsStatus(raised, write_ok) == IF raised THEN 500 ELSE 200

DoGetStatsReport(today, outcomes, putOk) ==
    LET csv_rows == ReadCsvFromBlob(token, store, TRUE, TRUE)
        fetched  == Fetched(outcomes)
        report   == Report(today, fetched, csv_rows)
        raised   == report = Raised
        rows     == UpsertStats(csv_rows,
                        CsvRow(today, fetched["daily"].totalSteps, fetched["body"],
                               csv_rows), today)
        w        == WriteCsvToBlob(token, store, rows, TRUE, putOk, {})
    IN  /\ store' = IF raised THEN store ELSE Canonical(w.store)
        /\ last' = [op |-> "get_stats", today |-> today, outcomes |-> outcomes,
                    read |-> csv_rows,
                    writeOk |-> ~raised /\ w.ok,
                    status |-> GetStatsStatus(raised, ~raised /\ w.ok),
                    response |-> IF raised THEN NoneValue ELSE report]
        /\ UNCHANGED <<token, pc, loc, events, arg, res>>

InitReport ==
    /\ token \in BOOLEAN
    /\ \E rows \in SeedLedgers :
          store = IF rows = <<>> THEN <<>> ELSE PutBlob(<<>>, rows, {})
    /\ last = NoInvocation
    /\ pc = [p \in Procs |-> "idle"]
    /\ loc = [p \in Procs |-> NoLocal]
    /\ events = <<>>
    /\ arg = <<>>
    /\ res = [fn |-> "none", out |-> NoneValue]

GetStatsReport ==
    /\ last.op = "none"
    /\ \E today \in Dates, outcomes \in FetchOutcomes, putOk \in BOOLEAN :
          DoGetStatsReport(today, outcomes, putOk)

NextReport == GetStatsReport

SpecReport == InitReport /\ [][NextReport]_vars

\* SpecWaist: save_waist requests, one at a time, with any value under
\* 'inches'; the put of the ledger write may fail.  last.calls are the calls
\* the invocation made to the store.
InchesRequests ==
    {MissingKey, NullValue, Num(0), Num(-10), Num(340), NumStr(340), TextStr,
     NaNStr, BoolTrue}

DoSaveWaistRequest(today, inches, putOk) ==
    LET x        == ParseInches(inches)
        refused  == x = Raised \/ NotPositive(x)
        csv_rows == ReadCsvFromBlob(token, store, TRUE, TRUE)
        rows     == UpsertWaistValue(csv_rows, x, today)
        w        == WriteCsvToBlob(token, store, rows, TRUE, putOk, {})
    IN  /\ store' = IF refused THEN store ELSE Canonical(w.store)
        /\ last' = [op |-> "save_waist", today |-> today, request |-> inches,
                    before |-> store,
                    calls |-> IF refused \/ ~token THEN <<>>
                              ELSE IF store = <<>> THEN <<"list", "list", "put">>
                              ELSE IF w.ok
                                   THEN <<"list", "fetch", "list", "put", "delete">>
                              ELSE <<"list", "fetch", "list", "put">>,
                    status |-> IF x = Raised THEN 500
                               ELSE IF NotPositive(x) THEN 400
                               ELSE IF w.ok THEN 200 ELSE 500]
        /\ UNCHANGED <<token, pc, loc, events, arg, res>>

SaveWaistRequest ==
    \E today \in Dates, inches \in InchesRequests, putOk \in BOOLEAN :
        DoSaveWaistRequest(today, inches, putOk)

NextWaist == SaveWaistRequest

SpecWaist == InitReport /\ [][NextWaist]_vars

\* ===================================================================
\* Properties
\* ===================================================================
HasRow(rows, d) == \E i \in 1..Len(rows) : rows[i].date = DateStr(d)

RowsOn(rows, d) == {i \in 1..Len(rows) : rows[i].date = DateStr(d)}

RowOn(rows, d) == rows[FindDate(rows, d)]

StrictlyAscending(rows) ==
    \A i \in 1..(Len(rows) - 1) : DateKey(rows[i]) < DateKey(rows[i + 1])

\* The last invocation was a get_stats that read the ledger and wrote it back.
StatsDone ==
    /\ last.op = "get_stats" /\ last.status = 200
    /\ last.readOk /\ last.writeOk

\* The cell of a body-composition column in a bodyComposition group.
GroupCell(g, c) ==
    IF c = "bodyCompDate" THEN g.date ELSE g[c]

\* C1: after any sequence of get_stats and save_waist invocations from the
\* empty ledger, whatever read_csv_from_blob returns (also when its listing or
\* its fetch fails) is strictly ascending by date key, so no two rows share a
\* date key.
C1_SortedNoDuplicates ==
    \A fault \in ReadFaults :
        StrictlyAscending(
            ReadCsvFromBlob(token, store, fault # "list", fault # "fetch"))

\* C1's case: a row was appended for a date earlier than a row already there.
C1_Witness ==
    /\ last.writeOk
    /\ ~HasRow(last.before, last.today)
    /\ \E d \in Dates : d > last.today /\ HasRow(last.before, d)
    /\ Len(Ledger) >= 2

\* C2 (as claimed): no step removes a date's row from the ledger, also when
\* the invocation's ledger read fails and its write succeeds.
C2_NeverDeleted ==
    [][\A d \in Dates : HasRow(Ledger, d) => HasRow(Ledger', d)]_vars

\* C3 (as claimed), where nothing fresh was fetched: after get_stats creates
\* the row for a date that had none, the ledger has exactly one row for the
\* date and its slowly-changing cells are the carried-forward values of the
\* history, '' where there is none.
C3_CarriedRowStored ==
    (StatsDone /\ ~HasRow(last.before, last.today)
               /\ ~ExtractBodyComposition(last.body, last.today).has_today_body_comp) =>
        LET bc == GetLastBodyComposition(last.before)
            w  == GetLastWaist(last.before)
        IN  /\ Cardinality(RowsOn(Ledger, last.today)) = 1
            /\ \A c \in BodyCompColumns :
                  RowOn(Ledger, last.today)[c] =
                      IF bc.tag = "some" THEN CsvCell(GroupCell(bc, c)) ELSE EmptyStr
            /\ RowOn(Ledger, last.today).waistInches =
                  IF w.tag = "some" THEN CsvCell(w.inches) ELSE EmptyStr
            /\ RowOn(Ledger, last.today).waistDate =
                  IF w.tag = "some" THEN w.date ELSE EmptyStr

\* C3 (amended): after get_stats creates the row for a date that had none, the
\* ledger has exactly one row for the date; its waist cells are '', and its
\* body-composition cells are the fresh values reported when the fetched
\* weight is positive and '' otherwise.  Carried-forward values appear in the
\* response only.
C3_FreshRowStored ==
    (StatsDone /\ ~HasRow(last.before, last.today)) =>
        LET fresh == IF Len(last.body.dateWeightList) > 0
                     THEN last.body.dateWeightList[1].weight > 0
                     ELSE last.body.totalAverage.weight > 0
        IN  /\ Cardinality(RowsOn(Ledger, last.today)) = 1
            /\ \A c \in BodyCompColumns :
                  RowOn(Ledger, last.today)[c] =
                      IF fresh THEN CsvCell(GroupCell(last.response.bodyComposition, c))
                      ELSE EmptyStr
            /\ \A c \in WaistColumns : RowOn(Ledger, last.today)[c] = EmptyStr

\* C3's case: the row was created while the history had a weight and a waist
\* to carry forward.
C3_Witness ==
    /\ StatsDone /\ ~HasRow(last.before, last.today)
    /\ GetLastBodyComposition(last.before).tag = "some"
    /\ GetLastWaist(last.before).tag = "some"
    /\ HasRow(Ledger, last.today)

\* C4: when the row get_stats finds for its date has a waist, the row it
\* stores for the date has the same waistInches and waistDate.
C4_WaistPreserved ==
    (StatsDone /\ HasRow(last.before, last.today)
               /\ Truthy(RowOn(last.before, last.today).waistInches)) =>
        /\ HasRow(Ledger, last.today)
        /\ RowOn(Ledger, last.today).waistInches =
                RowOn(last.before, last.today).waistInches
        /\ RowOn(Ledger, last.today).waistDate =
                RowOn(last.before, last.today).waistDate

\* C4's case: get_stats replaced a row that had a waist and other cells to
\* refresh.
C4_Witness ==
    /\ StatsDone /\ HasRow(last.before, last.today)
    /\ Truthy(RowOn(last.before, last.today).waistInches)
    /\ RowOn(last.before, last.today).totalSteps = EmptyStr
    /\ RowOn(Ledger, last.today).totalSteps # EmptyStr

\* C5 (as claimed): in the row get_stats stores over an existing one, a
\* slowly-changing cell is the existing cell only where the existing cell is
\* non-empty and the new row's is empty; elsewhere it is the new row's, so a
\* fresh body composition replaces the existing one.
C5_CopyOnlyIntoEmpty ==
    (StatsDone /\ HasRow(last.before, last.today)) =>
        LET existing == RowOn(last.before, last.today)
            new      == CsvRow(last.today, last.steps, last.body, last.before)
        IN  \A c \in BodyCompColumns \cup WaistColumns :
                RowOn(Ledger, last.today)[c] =
                    IF Truthy(existing[c]) /\ ~Truthy(new[c])
                    THEN existing[c] ELSE CsvCell(new[c])

\* C6: with invocations run one at a time and every store call succeeding, a
\* row's waistInches, and its weightKg, once non-empty stay non-empty.
C6_NeverCleared ==
    [][\A d \in Dates :
          /\ (HasRow(Ledger, d) /\ Truthy(RowOn(Ledger, d).waistInches)) =>
                (HasRow(Ledger', d) /\ Truthy(RowOn(Ledger', d).waistInches))
          /\ (HasRow(Ledger, d) /\ Truthy(RowOn(Ledger, d).weightKg)) =>
                (HasRow(Ledger', d) /\ Truthy(RowOn(Ledger', d).weightKg))]_vars

\* C6's case: a row with a waist and a weight was rewritten by get_stats with
\* nothing fresh for either.
C6_Witness ==
    /\ StatsDone /\ HasRow(last.before, last.today)
    /\ Truthy(RowOn(last.before, last.today).waistInches)
    /\ Truthy(RowOn(last.before, last.today).weightKg)
    /\ last.body = BodyNothing
    /\ Truthy(RowOn(Ledger, last.today).waistInches)

\* C8: a get_stats that follows a get_stats for the same date with the same
\* fetched data, both having read and written the ledger, leaves the ledger as
\* the first one left it.
C8_Idempotent ==
    (StatsDone /\ last.repeat) => Ledger = last.before

\* C8's case: the repeated get_stats ran on a ledger of several rows whose row
\* for the date carries a fresh weight.
C8_Witness ==
    /\ StatsDone /\ last.repeat
    /\ Len(Ledger) >= 2
    /\ Truthy(RowOn(Ledger, last.today).weightKg)

\* C10 (as claimed): the bodyComposition group of the response is the fresh
\* group when the fetched weight is positive, else the resolver's result,
\* else all zeros; the waist group is the resolver's result, else zero.
C10_GroupFallback ==
    (last.op = "get_stats" /\ last.status = 200) =>
        LET x  == ExtractBodyComposition(last.body, last.today)
            bc == GetLastBodyComposition(last.before)
            w  == GetLastWaist(last.before)
            g  == last.response.bodyComposition
        IN  /\ x.weight_grams > 0 =>
                /\ g.weightKg = Num(RoundTenths(x.weight_grams, GramsPerKg))
                /\ g.bodyFatPercent = Num(x.body_fat)
            /\ (x.weight_grams <= 0 /\ bc.tag = "some") =>
                \A c \in BodyCompColumns : GroupCell(g, c) = GroupCell(bc, c)
            /\ (x.weight_grams <= 0 /\ bc.tag = "none") =>
                \A c \in BodyCompColumns \ {"bodyCompDate"} : g[c] = Num(0)
            /\ last.response.waist =
                IF w.tag = "some" THEN [inches |-> w.inches, date |-> w.date]
                ELSE [inches |-> Num(0), date |-> EmptyStr]

\* The place of invocation p's ledger read (its put) among the events.
EventAt(p, kind) == CHOOSE i \in 1..Len(events) : events[i] = <<p, kind>>

\* Both invocations have finished, and each read the ledger before either put.
RacedWrites ==
    /\ \A p \in Procs : pc[p] = "done"
    /\ \A p \in Procs : \E i \in 1..Len(events) : events[i] = <<p, "put">>
    /\ \A p, q \in Procs : EventAt(p, "read") < EventAt(q, "put")

LaterWriter == CHOOSE p \in Procs : \A q \in Procs : EventAt(q, "put") <= EventAt(p, "put")

EarlierWriter == CHOOSE p \in Procs : p # LaterWriter

\* C7: when two invocations both read the ledger before either writes it, the
\* ledger read back after both writes is exactly the collection the later
\* writer put, made from the ledger both read; a waist the earlier writer
\* recorded on a row that had none is not in it.
C7_LaterWriteWins ==
    RacedWrites =>
        LET l == loc[LaterWriter]
            e == loc[EarlierWriter]
        IN  /\ Ledger = CsvContent(l.rows)
            /\ l.read = e.read
            /\ (/\ e.op = "save_waist" /\ l.op = "get_stats"
                /\ ~(HasRow(e.read, e.today) /\ Truthy(RowOn(e.read, e.today).waistInches)))
               => ~(HasRow(Ledger, e.today) /\ Truthy(RowOn(Ledger, e.today).waistInches))

\* C7's case: save_waist put first and get_stats, for the same date, put
\* second, both having read a ledger whose row for the date had no waist; the
\* earlier object is still in the store.
C7_Witness ==
    /\ RacedWrites
    /\ loc[EarlierWriter].op = "save_waist"
    /\ loc[LaterWriter].op = "get_stats"
    /\ loc[EarlierWriter].today = loc[LaterWriter].today
    /\ HasRow(loc[EarlierWriter].read, loc[EarlierWriter].today)
    /\ Len(store) = 2
    /\ ~Truthy(RowOn(Ledger, loc[EarlierWriter].today).waistInches)

\* The last row of rows whose primary cell is present and greater than zero;
\* 0 when there is none.
LastPositive(rows, primary) ==
    LET hits == {i \in 1..Len(rows) :
                    rows[i][primary] # EmptyStr /\ rows[i][primary].n > 0}
    IN  IF hits = {} THEN 0 ELSE CHOOSE i \in hits : \A j \in hits : j <= i

\* C9: get_last_body_composition and get_last_waist return the values, as
\* numbers, and the recorded source date of the last row whose weightKg
\* (waistInches) is present and greater than zero, and None when there is no
\* such row.
C9_ResolverReturnsLast ==
    /\ res.fn = "body" =>
        LET i == LastPositive(arg, "weightKg")
        IN  IF i = 0 THEN res.out = NoneValue
            ELSE /\ res.out.tag = "some"
                 /\ \A c \in BodyCompColumns \ {"bodyCompDate"} :
                        res.out[c] = Num(arg[i][c].n)
                 /\ res.out.date = arg[i].bodyCompDate
    /\ res.fn = "waist" =>
        LET i == LastPositive(arg, "waistInches")
        IN  IF i = 0 THEN res.out = NoneValue
            ELSE /\ res.out.tag = "some"
                 /\ res.out.inches = Num(arg[i].waistInches.n)
                 /\ res.out.date = arg[i].waistDate

\* C9's case: the resolver skipped a later row whose weight is "0.0" and
\* returned an earlier row's weight.
C9_Witness ==
    /\ res.fn = "body" /\ res.out.tag = "some"
    /\ Len(arg) = 2
    /\ arg[2].weightKg = NumStr(0)
    /\ res.out.date = DateStr(1)


\* The samples of a values array that carry a measured level in lo..hi.
MeasuredIn(series, lo, hi) ==
    {i \in 1..Len(series) :
        /\ HasLevel(series[i])
        /\ LevelOf(series[i]) # NullValue
        /\ LevelOf(series[i]).n >= lo
        /\ LevelOf(series[i]).n <= hi}

\* C16: every sample with a non-null level >= 0 adds 180 seconds to exactly
\* one bucket (<= 25 rest, <= 50 low, <= 75 medium, above high), samples with a
\* negative or null level add nothing, the four durations sum to 180 times the
\* number of measured samples, and ten samples at 10 plus ten at 90 give
\* rest = high = 1800 and low = medium = 0.
C16_StressBuckets ==
    res.fn = "stress" =>
        /\ res.out.rest = 180 * Cardinality(MeasuredIn(arg, 0, 25))
        /\ res.out.low = 180 * Cardinality(MeasuredIn(arg, 26, 50))
        /\ res.out.medium = 180 * Cardinality(MeasuredIn(arg, 51, 75))
        /\ res.out.high = 180 * Cardinality(MeasuredIn(arg, 76, 100))
        /\ res.out.rest + res.out.low + res.out.medium + res.out.high
              = 180 * Cardinality(MeasuredIn(arg, 0, 100))
        /\ arg = StressExample =>
              res.out = [rest |-> 1800, low |-> 0, medium |-> 0, high |-> 1800]

C16_Witness ==
    /\ res.fn = "stress"
    /\ Len(arg) = 3
    /\ Cardinality(MeasuredIn(arg, 0, 25)) = 1
    /\ Cardinality(MeasuredIn(arg, 76, 100)) = 1
    /\ Cardinality(MeasuredIn(arg, 0, 100)) = 2
    /\ res.out.rest = 180

\* C17: for a non-empty body-battery series the reported highest and lowest
\* are the maximum and minimum of the non-null levels (levels in 0..100, a
\* series whose minimum is 100 included) and current is the last level; for an
\* empty series all three are 0.
C17_BodyBatteryExtremes ==
    (res.fn = "battery" /\ MeasuredIn(arg, 0, 100) = MeasuredIn(arg, -1, 100)) =>
        LET measured == MeasuredIn(arg, 0, 100)
            levels   == {LevelOf(arg[i]).n : i \in measured}
            latest   == CHOOSE i \in measured : \A j \in measured : j <= i
        IN  IF measured = {}
            THEN res.out = [current |-> 0, highest |-> 0, lowest |-> 0]
            ELSE /\ \A l \in levels : l <= res.out.highest /\ res.out.lowest <= l
                 /\ res.out.highest \in levels
                 /\ res.out.lowest \in levels
                 /\ res.out.current = LevelOf(arg[latest]).n


\* The categories of an invocation whose fetch raised.
FailedCategories == {c \in Categories : last.outcomes[c].failed}

\* The invocation's outcomes had every fetch succeeded.
AllFetched == [c \in Categories |-> [last.outcomes[c] EXCEPT !.failed = FALSE]]

\* The group of the response a category fills.
GroupOf(response, c) ==
    CASE c = "daily" -> response.totalSteps
      [] c = "stress" -> response.stress
      [] c = "battery" -> response.bodyBattery
      [] c = "body" -> response.bodyComposition
      [] c = "hrv" -> response.hrv
      [] c = "readiness" -> response.trainingReadiness

\* A category's neutral group: 0 for numbers and flags, '' for labels; for the
\* body composition, the carried-forward group when history has one.
NeutralGroup(c, today, csv_rows) ==
    CASE c = "daily" -> Num(0)
      [] c = "stress" -> [averageLevel |-> 0] @@ NoDurations
      [] c = "battery" ->
            [charged |-> 0, drained |-> 0, current |-> 0, highest |-> 0, lowest |-> 0]
      [] c = "body" ->
            BodyCompositionGroup(ExtractBodyComposition(BodyNothing, today),
                                 GetLastBodyComposition(csv_rows))
      [] c = "hrv" -> [average |-> 0, status |-> "", balanced |-> 0, unbalanced |-> 0]
      [] c = "readiness" -> [score |-> 0, status |-> ""]

\* Every payload the invocation was given is well-formed.
WellFormed == \A c \in Categories : last.outcomes[c].payload = GoodPayload(c)

\* C11: whichever categories' fetches fail, get_stats completes with a report
\* in which every field of a failed category has its neutral value and the
\* groups of the other categories are what they are when no fetch fails.
C11_FailedCategoryNeutral ==
    (last.op = "get_stats" /\ WellFormed) =>
        /\ last.status = 200
        /\ \A c \in Categories :
              GroupOf(last.response, c) =
                 IF c \in FailedCategories
                 THEN NeutralGroup(c, last.today, last.read)
                 ELSE GroupOf(Report(last.today, Fetched(AllFetched), last.read), c)

\* C12: with a provider session, get_stats answers with a report whatever the
\* type or shape of the payloads: a malformed payload is treated as absent.
C12_AlwaysReport ==
    last.op = "get_stats" => last.status = 200 /\ last.response # NoneValue

\* C15: get_stats returns the report it computed whether the ledger write
\* succeeds, fails at the put, or is skipped for lack of a token; a failed
\* write never makes the response an error.
C15_ReportDespiteWrite ==
    (last.op = "get_stats" /\ Report(last.today, Fetched(last.outcomes), last.read) # Raised) =>
        /\ last.status = 200
        /\ last.response = Report(last.today, Fetched(last.outcomes), last.read)

C15_Witness ==
    /\ last.op = "get_stats"
    /\ token
    /\ ~last.writeOk
    /\ last.status = 200
    /\ last.response # NoneValue
    /\ last.response.totalSteps = Num(8000)


\* C13: read_csv_from_blob always returns a sequence: the empty one when the
\* token is unset, when no object with the ledger's name is listed, when the
\* listing or the fetch fails; otherwise the rows of the selected object, the
\* one uploaded last.
C13_ReadNeverRaises ==
    res.fn = "read" =>
        res.out = IF ~token \/ res.fault # "none" \/ res.listed = 0
                  THEN <<>> ELSE res.newest

C13_Witness ==
    /\ res.fn = "read"
    /\ token
    /\ res.fault = "fetch"
    /\ res.listed > 0
    /\ res.newest # <<>>
    /\ res.out = <<>>

\* C14: when several objects with the ledger's name coexist, the read selects
\* the one created last whatever the order of the listing, so a reader running
\* after a writer's put and before its deletes gets the rows just written.
C14_NewestSelected ==
    (res.fn = "read" /\ token /\ res.fault = "none" /\ res.listed > 0) =>
        /\ res.out = res.newest
        /\ res.between => res.out = res.written

C14_Witness ==
    /\ res.fn = "read"
    /\ token
    /\ res.fault = "none"
    /\ res.listed = 2
    /\ res.order = <<1, 2>>
    /\ res.between
    /\ res.out = res.written
    /\ res.out # <<>>
    /\ Len(store) = 2
    /\ store[1].rows # res.out

\* The ledger a read returns when its calls succeed, from the given objects.
LedgerOf(objects) == ReadCsvFromBlob(token, objects, TRUE, TRUE)

\* The sole writer has finished a write and has not started the next put.
WriteFinished == last.op = "write" /\ pc[1] = "idle"

\* C18: after a write in which the put and every delete succeeded, the store
\* holds exactly one object with the ledger's name, the one just created, and
\* its content is the rows passed to the write.
C18_ExactlyOneObject ==
    (WriteFinished /\ last.ok /\ last.deleted) =>
        /\ Len(store) = 1
        /\ store[1].rows = CsvContent(last.rows)

\* C19 as stated: when the put fails (other status, exception, timeout) or
\* the token is unset, the write returns False, the objects in the store are
\* the same as before and a read returns the same rows as before.
C19_FailedPutLeavesStore ==
    (WriteFinished /\ last.put \in {"skipped", "rejected", "timeout"}) =>
        /\ ~last.ok
        /\ store = last.before
        /\ LedgerOf(store) = LedgerOf(last.before)

\* C19, amended: a write whose put was not answered 200/201 returns False and
\* deletes nothing.  When the put was rejected or never reached the store, or
\* the token is unset, the store's objects and the rows a read returns are the
\* same as before; when the put timed out after the store had stored the
\* object, the store holds the old objects and the new one, and a read returns
\* the rows of the attempted write.
C19_NoDeleteBeforePut ==
    (WriteFinished /\ last.put \in {"skipped", "rejected", "timeout"}) =>
        /\ ~last.ok
        /\ Len(store) >= Len(last.before)
        /\ \A i \in 1..Len(last.before) :
              i <= Len(store) /\ store[i] = last.before[i]
        /\ last.put # "timeout" =>
              /\ store = last.before
              /\ LedgerOf(store) = LedgerOf(last.before)
        /\ last.put = "timeout" =>
              /\ Len(store) = Len(last.before) + 1
              /\ LedgerOf(store) = CsvContent(last.rows)

C19_Witness ==
    /\ WriteFinished
    /\ token
    /\ last.put = "rejected"
    /\ last.listed # <<>>
    /\ ~last.ok
    /\ store = last.before
    /\ LedgerOf(store) # CsvContent(last.rows)


\* C20: when save_waist(v) with v > 0 reports success, its ledger write
\* succeeded and the ledger read next holds exactly one row for today, with
\* waistInches = v and waistDate = today.
C20_WaistRecorded ==
    (last.op = "save_waist" /\ last.status = 200) =>
        /\ last.inches > 0
        /\ last.writeOk
        /\ Cardinality(RowsOn(Ledger, last.today)) = 1
        /\ RowOn(Ledger, last.today).waistInches = NumStr(last.inches)
        /\ RowOn(Ledger, last.today).waistDate = DateStr(last.today)

C20_Witness ==
    /\ last.op = "save_waist"
    /\ last.status = 200
    /\ last.readOk
    /\ Len(Ledger) = 2
    /\ RowOn(Ledger, last.today).totalSteps # EmptyStr
    /\ RowOn(Ledger, last.today).waistInches = NumStr(340)


\* The rows of a ledger for dates other than d, in order.
RowsOff(rows, d) == SelectSeq(rows, LAMBDA row : row.date # DateStr(d))

\* C21: a successful save_waist changes only waistInches and waistDate of
\* today's row: the rows for other dates and every other field of today's row
\* are in the ledger afterwards as they were in the ledger the call read, and
\* a row created for today is empty outside date, waistInches and waistDate.
C21_WaistFrame ==
    (last.op = "save_waist" /\ last.status = 200) =>
        /\ RowsOff(Ledger, last.today) = RowsOff(last.read, last.today)
        /\ HasRow(Ledger, last.today)
        /\ \A c \in Columns \ (WaistColumns \cup {"date"}) :
              RowOn(Ledger, last.today)[c] =
                 IF HasRow(last.read, last.today)
                 THEN RowOn(last.read, last.today)[c] ELSE EmptyStr

C21_Witness ==
    /\ last.op = "save_waist"
    /\ last.status = 200
    /\ HasRow(last.read, last.today)
    /\ RowOn(last.read, last.today).weightKg # EmptyStr
    /\ RowOn(last.read, last.today).waistInches = EmptyStr
    /\ RowsOff(last.read, last.today) # <<>>
    /\ RowOn(Ledger, last.today).waistInches = NumStr(340)


\* The request's inches value is zero, negative, missing, or not a number.
InvalidInches(v) ==
    \/ v.ty \in {"missing", "null", "bool"}
    \/ v.ty = "str" /\ v.kind # "num"
    \/ v.ty = "num" /\ v.n <= 0

\* C22: save_waist with an inches value that is zero, negative, missing or
\* non-numeric answers with an error and makes no ledger read, put or delete:
\* the store is as it was.
C22_InvalidInchesRejected ==
    (last.op = "save_waist" /\ InvalidInches(last.request)) =>
        /\ last.status \in {400, 500}
        /\ last.calls = <<>>
        /\ store = last.before

====
